---------------------------- MODULE Spec2Model ----------------------------
(***************************************************************************)
(* Model of the Vintage Gear Finder scraping pipeline:                     *)
(*   src/scraper.py  VintageGearScraper (adapters, year extraction,        *)
(*                   filter_results, scrape_all)                           *)
(*   src/config.py   Config (the configuration the scraper reads)          *)
(*                                                                         *)
(* Text is modelled as a sequence of one-character strings, a title as the *)
(* sequence of its maximal runs of word characters (the regular            *)
(* expression of extract_year_from_title is anchored on \b at both ends,   *)
(* so a match is always one whole run).  A price is an integer number of   *)
(* hundredths of a currency unit.                                          *)
(***************************************************************************)
EXTENDS Integers, Sequences, FiniteSets, TLC

(***************************************************************************)
(* Python values whose type matters: text, a number, None (JSON null), a   *)
(* list (unhashable, without .upper()), or a key absent from its dict.     *)
(***************************************************************************)
PyStr(s) == [type |-> "str", text |-> s, num |-> 0]
PyNum(n) == [type |-> "num", text |-> <<>>, num |-> n]
PyNone == [type |-> "none", text |-> <<>>, num |-> 0]
PyList == [type |-> "list", text |-> <<>>, num |-> 0]
PyMissing == [type |-> "missing", text |-> <<>>, num |-> 0]

\* Condition values that are not text: null, a list, an absent key.
None == "None"
ListValue == "ListValue"
Missing == "Missing"

\* The year of a listing when none was extracted (Python's None).
NoYear == -1

(***************************************************************************)
(* Bounds of the model.                                                    *)
(***************************************************************************)
MaxTerms == 2
MaxRuns == 2
MaxLen == 2
MaxUpdates == 1

(***************************************************************************)
(* Text helpers.                                                           *)
(***************************************************************************)
Digits == {"0", "1", "2", "3", "4", "5", "6", "7", "8", "9"}

DigitVal(c) ==
    CASE c = "0" -> 0 [] c = "1" -> 1 [] c = "2" -> 2 [] c = "3" -> 3
      [] c = "4" -> 4 [] c = "5" -> 5 [] c = "6" -> 6 [] c = "7" -> 7
      [] c = "8" -> 8 [] c = "9" -> 9

\* int() of a run of decimal digits.
RECURSIVE IntOf(_)
IntOf(ds) ==
    IF ds = <<>> THEN 0
    ELSE 10 * IntOf(SubSeq(ds, 1, Len(ds) - 1)) + DigitVal(ds[Len(ds)])

\* str.upper(), on ASCII letters.
LowerLetters ==
    <<"a", "b", "c", "d", "e", "f", "g", "h", "i", "j", "k", "l", "m",
      "n", "o", "p", "q", "r", "s", "t", "u", "v", "w", "x", "y", "z">>
UpperLetters ==
    <<"A", "B", "C", "D", "E", "F", "G", "H", "I", "J", "K", "L", "M",
      "N", "O", "P", "Q", "R", "S", "T", "U", "V", "W", "X", "Y", "Z">>

UpperChar(c) ==
    IF \E i \in 1..Len(LowerLetters) : LowerLetters[i] = c
    THEN UpperLetters[CHOOSE i \in 1..Len(LowerLetters) : LowerLetters[i] = c]
    ELSE c

Upper(s) == [i \in 1..Len(s) |-> UpperChar(s[i])]

\* Python's  sub in s  for text.
Contains(s, sub) ==
    \E i \in 0..(Len(s) - Len(sub)) : SubSeq(s, i + 1, i + Len(sub)) = sub

TextUS == <<"U", "S">>
TextUnitedStates ==
    <<"U", "N", "I", "T", "E", "D", " ", "S", "T", "A", "T", "E", "S">>

(***************************************************************************)
(* extract_year_from_title (src/scraper.py:328-337).                       *)
(***************************************************************************)
\* The band a year must lie in to be returned.
MinVintageYear == 1920
MaxVintageYear == 1979

\* One whole word run matched by  19[0-9]{2}|20[0-2][0-9] .
YearPattern(t) ==
    /\ Len(t) = 4
    /\ \/ t[1] = "1" /\ t[2] = "9" /\ t[3] \in Digits /\ t[4] \in Digits
       \/ t[1] = "2" /\ t[2] = "0" /\ t[3] \in {"0", "1", "2"} /\ t[4] \in Digits

\* re.search: the leftmost match, 0 when there is none.
YearMatch(title) ==
    IF \E i \in 1..Len(title) : YearPattern(title[i])
    THEN CHOOSE i \in 1..Len(title) :
            /\ YearPattern(title[i])
            /\ \A j \in 1..(i - 1) : ~YearPattern(title[j])
    ELSE 0

\* Faulty variant: the band check is dropped.
extract_year_no_band(title) ==
    IF YearMatch(title) = 0 THEN NoYear ELSE IntOf(title[YearMatch(title)])

extract_year_from_title(title) ==
    IF YearMatch(title) = 0 THEN NoYear
    ELSE LET year == IntOf(title[YearMatch(title)])
         IN  IF MinVintageYear <= year /\ year <= MaxVintageYear
             THEN year ELSE NoYear

(***************************************************************************)
(* filter_results (src/scraper.py:339-377).                                *)
(***************************************************************************)
PriceCeiling == 50000   \* 500 currency units, in hundredths
DefaultMinRank == 3

CondPoor == "Poor"
CondFair == "Fair"
CondGood == "Good"
CondVeryGood == "Very Good"
CondExcellent == "Excellent"
CondMint == "Mint"
CondNew == "New"
CondUnknown == "Unknown"

ConditionLabels ==
    {CondPoor, CondFair, CondGood, CondVeryGood, CondExcellent, CondMint,
     CondNew, CondUnknown}

\* The condition_rank table.
condition_rank(label) ==
    CASE label = CondPoor -> 1 [] label = CondFair -> 2 [] label = CondGood -> 3
      [] label = CondVeryGood -> 4 [] label = CondExcellent -> 5
      [] label = CondMint -> 6 [] label = CondNew -> 7 [] label = CondUnknown -> 0

\* condition_rank.get(min_condition, 3)
min_condition_rank(min_condition) ==
    IF min_condition \in ConditionLabels THEN condition_rank(min_condition)
    ELSE DefaultMinRank

\* condition_rank.get(item.get("condition", "Unknown"), 0), for a hashable key.
item_condition_rank(condition) ==
    IF condition \in ConditionLabels THEN condition_rank(condition) ELSE 0

\* Faulty variant: a price equal to the ceiling is rejected too.
FilterItemPriceInclusive(item, max_year, min_condition) ==
    IF item.year # NoYear /\ item.year # 0 /\ item.year > max_year THEN "reject"
    ELSE IF item.condition = ListValue THEN "raise"
    ELSE IF item_condition_rank(item.condition) < min_condition_rank(min_condition)
         THEN "reject"
    ELSE IF item.price >= PriceCeiling THEN "reject"
    ELSE IF item.location.type # "str" THEN "raise"
    ELSE LET location == Upper(item.location.text)
         IN  IF /\ location # <<>>
                /\ ~Contains(location, TextUS)
                /\ ~Contains(location, TextUnitedStates)
             THEN "reject" ELSE "keep"

\* Faulty variant: the comparison of the condition ranks is reversed.
FilterItemRanksReversed(item, max_year, min_condition) ==
    IF item.year # NoYear /\ item.year # 0 /\ item.year > max_year THEN "reject"
    ELSE IF item.condition = ListValue THEN "raise"
    ELSE IF item_condition_rank(item.condition) > min_condition_rank(min_condition)
         THEN "reject"
    ELSE IF item.price > PriceCeiling THEN "reject"
    ELSE IF item.location.type # "str" THEN "raise"
    ELSE LET location == Upper(item.location.text)
         IN  IF /\ location # <<>>
                /\ ~Contains(location, TextUS)
                /\ ~Contains(location, TextUnitedStates)
             THEN "reject" ELSE "keep"

\* One iteration of the loop of filter_results: "keep" (appended), "reject"
\* (continue) or "raise" (an exception leaves filter_results).
FilterItem(item, max_year, min_condition) ==
    IF item.year # NoYear /\ item.year # 0 /\ item.year > max_year THEN "reject"
    ELSE IF item.condition = ListValue THEN "raise"
    ELSE IF item_condition_rank(item.condition) < min_condition_rank(min_condition)
         THEN "reject"
    ELSE IF item.price > PriceCeiling THEN "reject"
    ELSE IF item.location.type # "str" THEN "raise"
    ELSE LET location == Upper(item.location.text)
         IN  IF /\ location # <<>>
                /\ ~Contains(location, TextUS)
                /\ ~Contains(location, TextUnitedStates)
             THEN "reject" ELSE "keep"

\* Faulty variant: a rejected item is removed from the list being iterated, so the
\* item that follows it is never examined.
RECURSIVE RemoveWhileIterating(_, _, _, _)
RemoveWhileIterating(results, i, max_year, min_condition) ==
    IF i > Len(results) THEN results
    ELSE IF FilterItem(results[i], max_year, min_condition) = "reject"
         THEN RemoveWhileIterating(
                  SubSeq(results, 1, i - 1) \o SubSeq(results, i + 1, Len(results)),
                  i + 1, max_year, min_condition)
         ELSE RemoveWhileIterating(results, i + 1, max_year, min_condition)

filter_results_removing(results, max_year, min_condition) ==
    IF \E i \in 1..Len(results) :
          FilterItem(results[i], max_year, min_condition) = "raise"
    THEN [raised |-> TRUE, filtered |-> <<>>, input |-> results]
    ELSE LET left == RemoveWhileIterating(results, 1, max_year, min_condition)
         IN  [raised |-> FALSE, filtered |-> left, input |-> left]

\* The outcome of filter_results(results): whether an exception left it, the
\* list it returned, and its argument as the call leaves it (the loop only
\* reads the argument and appends to a new list).
filter_results(results, max_year, min_condition) ==
    IF \E i \in 1..Len(results) :
          FilterItem(results[i], max_year, min_condition) = "raise"
    THEN [raised |-> TRUE, filtered |-> <<>>, input |-> results]
    ELSE [raised |-> FALSE,
          filtered |-> SelectSeq(results,
              LAMBDA x : FilterItem(x, max_year, min_condition) = "keep"),
          input |-> results]

(***************************************************************************)
(* Item parsing of the four adapter paths.  A parse yields                 *)
(* [ok |-> TRUE, listing |-> ...] (the result dict that is appended) or    *)
(* NoListing (the item is skipped).  The fields currency, url, image_url   *)
(* and scraped_at of a result dict are not read by any step modelled here  *)
(* and are left out of a listing.                                          *)
(***************************************************************************)
EBay == "eBay"
Reverb == "Reverb"

EmptyText == <<>>
LocUS == <<"U", "S">>

Listing(marketplace, title, price, condition, location, year) ==
    [marketplace |-> marketplace, title |-> title, price |-> price,
     condition |-> condition, location |-> location, year |-> year]

NoListing ==
    [ok |-> FALSE,
     listing |-> Listing("", EmptyText, 0, CondUnknown, PyNone, NoYear)]

Parsed(l) == [ok |-> TRUE, listing |-> l]

\* float(x) of a price field: the numeral x.num; anything else raises.
FloatRaises(x) == x.type # "num"

\* The price regular expression of the HTML paths, src/scraper.py:184 and 302:
\* commas are removed, then the leftmost run of digits is taken, with a
\* following '.' and two digits as its fraction.  0 when no digit occurs.
RemoveCommas(text) == SelectSeq(text, LAMBDA c : c # ",")

RECURSIVE DigitRunEnd(_, _)
DigitRunEnd(text, i) ==
    IF i < Len(text) /\ text[i + 1] \in Digits THEN DigitRunEnd(text, i + 1) ELSE i

ParsePriceText(price_text) ==
    LET t == RemoveCommas(price_text)
    IN  IF ~\E i \in 1..Len(t) : t[i] \in Digits THEN 0
        ELSE LET i == CHOOSE k \in 1..Len(t) :
                          t[k] \in Digits /\ \A j \in 1..(k - 1) : t[j] \notin Digits
                 j == DigitRunEnd(t, i)
                 frac == IF /\ j + 3 <= Len(t)
                            /\ t[j + 1] = "."
                            /\ t[j + 2] \in Digits
                            /\ t[j + 3] \in Digits
                         THEN IntOf(SubSeq(t, j + 2, j + 3)) ELSE 0
             IN  100 * IntOf(SubSeq(t, i, j)) + frac

\* scrape_ebay_api, the body of the per-item try (src/scraper.py:129-145).
\* item.value is the "__value__" of currentPrice, a numeral in currency units,
\* and item.currency its "@currencyId".
ParseEbayApiItem(item) ==
    IF ~item.dict THEN NoListing
    ELSE LET title == IF item.title.type = "missing" THEN PyStr(EmptyText)
                      ELSE item.title
             value == IF item.value.type = "missing" THEN PyNum(0) ELSE item.value
             condition == IF item.condition = Missing THEN CondUnknown
                          ELSE item.condition
             location == IF item.location.type = "missing" THEN PyStr(EmptyText)
                         ELSE item.location
         IN  IF FloatRaises(value) THEN NoListing
             ELSE IF item.value.type # "missing" /\ item.currency = Missing
                  THEN NoListing
             ELSE IF title.type # "str" THEN NoListing
             ELSE Parsed(Listing(EBay, title.text, 100 * value.num, condition,
                                 location, extract_year_from_title(title.text)))

\* scrape_reverb_api, the body of the per-item try (src/scraper.py:249-265).
\* item.amount is price.amount, in hundredths; item.condition is
\* condition.display_name; item.photos is whether the photos list has an entry.
ParseReverbApiItem(item) ==
    IF ~item.dict THEN NoListing
    ELSE LET title == IF item.title.type = "missing" THEN PyStr(EmptyText)
                      ELSE item.title
             amount == IF item.amount.type = "missing" THEN PyNum(0)
                       ELSE item.amount
             condition == IF item.condition = Missing THEN CondUnknown
                          ELSE item.condition
             location == IF item.location.type = "missing" THEN PyStr(LocUS)
                         ELSE item.location
         IN  IF FloatRaises(amount) THEN NoListing
             ELSE IF ~item.photos THEN NoListing
             ELSE IF title.type # "str" THEN NoListing
             ELSE Parsed(Listing(Reverb, title.text, amount.num, condition,
                                 location, extract_year_from_title(title.text)))

\* scrape_ebay_html / scrape_reverb_html, the body of the per-item try
\* (src/scraper.py:171-203 and 290-321).  A card is the text of its title,
\* price and condition elements (PyMissing / Missing when the element is
\* absent) and whether it has a link element.
ParseHtmlCard(marketplace, card) ==
    IF \/ card.title.type = "missing"
       \/ card.price_text.type = "missing"
       \/ (marketplace = EBay /\ ~card.link)
    THEN NoListing
    ELSE Parsed(Listing(marketplace, card.title.text,
                        ParsePriceText(card.price_text.text),
                        IF card.condition = Missing THEN CondUnknown
                        ELSE card.condition,
                        PyStr(LocUS),
                        extract_year_from_title(card.title.text)))

\* The parse of one item on a path of a marketplace.
Api == "api"
Html == "html"

ParseItem(marketplace, path, item) ==
    IF path = Html THEN ParseHtmlCard(marketplace, item)
    ELSE IF marketplace = EBay THEN ParseEbayApiItem(item)
    ELSE ParseReverbApiItem(item)

\* Faulty variant: the first item that fails to parse ends the loop.
ParseItemsAborting(marketplace, path, items) ==
    LET parsed == [i \in 1..Len(items) |-> ParseItem(marketplace, path, items[i])]
        good == {n \in 0..Len(items) : \A i \in 1..n : parsed[i].ok}
        last == CHOOSE n \in good : \A k \in good : k <= n
    IN  [i \in 1..last |-> parsed[i].listing]

\* The listings of the items of a response, in order, skipped items left out.
ParseItems(marketplace, path, items) ==
    LET parsed == [i \in 1..Len(items) |-> ParseItem(marketplace, path, items[i])]
        kept == SelectSeq(parsed, LAMBDA p : p.ok)
    IN  [i \in 1..Len(kept) |-> kept[i].listing]

\* items[:50]
HtmlLimit == 50
Take(items, n) == SubSeq(items, 1, IF Len(items) < n THEN Len(items) ELSE n)

(***************************************************************************)
(* What a marketplace answers to one request.                              *)
(*   raise      session.get, response.json() or response.text() raises     *)
(*   status     the response status is not 200                             *)
(*   malformed  status 200, a body that is not JSON or not of the shape    *)
(*              the API path indexes into (an exception in the outer try)  *)
(*   nokey      status 200, a JSON object without the key the API path     *)
(*              looks up ("findItemsAdvancedResponse", "listings")         *)
(*   ok         status 200 and the items of the body                       *)
(***************************************************************************)
Raise == "raise"
Status == "status"
Malformed == "malformed"
NoKey == "nokey"
Ok == "ok"

Response(kind, items) == [kind |-> kind, items |-> items]

\* Faulty variant: a malformed body is not caught by the API path.
ApiOutcomeUncaught(marketplace, resp) ==
    IF resp.kind = Malformed
    THEN [raises |-> TRUE, fallback |-> FALSE, results |-> <<>>]
    ELSE IF resp.kind = Raise
         THEN [raises |-> FALSE, fallback |-> TRUE, results |-> <<>>]
         ELSE IF resp.kind = Ok
              THEN [raises |-> FALSE, fallback |-> FALSE,
                    results |-> ParseItems(marketplace, Api, resp.items)]
              ELSE [raises |-> FALSE, fallback |-> FALSE, results |-> <<>>]

\* What the API path of an adapter makes of a response: fall back to the HTML
\* path, or return results; the outer try lets no exception out
\* (src/scraper.py:120-152 and 243-272).
ApiOutcome(marketplace, resp) ==
    IF resp.kind \in {Raise, Malformed}
    THEN [raises |-> FALSE, fallback |-> TRUE, results |-> <<>>]
    ELSE IF resp.kind = Ok
         THEN [raises |-> FALSE, fallback |-> FALSE,
               results |-> ParseItems(marketplace, Api, resp.items)]
         ELSE [raises |-> FALSE, fallback |-> FALSE, results |-> <<>>]

\* The HTML path builds its URL with search_term.replace(' ', '+') before its
\* try (src/scraper.py:159 and 278): a term that is not text raises there.
HtmlUrlRaises(term) == term.type # "str"

\* The results of the HTML path (src/scraper.py:161-208 and 280-326).
HtmlResults(marketplace, resp) ==
    IF resp.kind = Ok
    THEN ParseItems(marketplace, Html, Take(resp.items, HtmlLimit))
    ELSE <<>>

(***************************************************************************)
(* Representative titles, items and responses of the two marketplaces.     *)
(***************************************************************************)
TokStrat == <<"s", "t", "r", "a", "t">>
Tok1965 == <<"1", "9", "6", "5">>
Tok1975 == <<"1", "9", "7", "5">>
Tok1985 == <<"1", "9", "8", "5">>
Tok1919 == <<"1", "9", "1", "9">>
Tok2015 == <<"2", "0", "1", "5">>
Tok1965s == <<"1", "9", "6", "5", "s">>

Usd == "USD"
CondPreOwned == "Pre-Owned"

EbayApiItem(title, value, currency, condition, location) ==
    [dict |-> TRUE, title |-> title, value |-> value, currency |-> currency,
     condition |-> condition, location |-> location]

ReverbApiItem(title, amount, condition, location, photos) ==
    [dict |-> TRUE, title |-> title, amount |-> amount, condition |-> condition,
     location |-> location, photos |-> photos]

HtmlCard(title, price_text, link, condition) ==
    [title |-> title, price_text |-> price_text, link |-> link,
     condition |-> condition]

\* A well-formed item that passes the default criteria.
EbayApiGood ==
    EbayApiItem(PyStr(<<TokStrat, Tok1965>>), PyNum(300), Usd, CondExcellent,
                PyStr(LocUS))
\* A price that is not a numeral: the item is skipped.
EbayApiBadPrice ==
    EbayApiItem(PyStr(<<TokStrat>>), PyStr(<<"x">>), Usd, CondExcellent,
                PyStr(LocUS))
\* A reissue in fair condition: no vintage year, rejected by the filter.
EbayApiReissue ==
    EbayApiItem(PyStr(<<Tok1985, TokStrat>>), PyNum(100), Usd, CondFair,
                PyStr(LocUS))
\* conditionDisplayName as the Finding API's JSON gives it: wrapped in a list.
EbayApiListCondition ==
    EbayApiItem(PyStr(<<TokStrat, Tok1965>>), PyNum(300), Usd, ListValue,
                PyStr(LocUS))

ReverbApiGood ==
    ReverbApiItem(PyStr(<<Tok1965, TokStrat>>), PyNum(30000), CondExcellent,
                  PyMissing, TRUE)
\* An empty photos list: the item is skipped.
ReverbApiNoPhotos ==
    ReverbApiItem(PyStr(<<TokStrat>>), PyNum(30000), CondExcellent, PyMissing,
                  FALSE)
\* Above the price ceiling: rejected by the filter.
ReverbApiPricey ==
    ReverbApiItem(PyStr(<<Tok2015, TokStrat>>), PyNum(60000), CondMint,
                  PyStr(LocUS), TRUE)
\* shipping.origin_country_code is null.
ReverbApiNullLocation ==
    ReverbApiItem(PyStr(<<TokStrat>>), PyNum(30000), CondExcellent, PyNone, TRUE)

CardGood ==
    HtmlCard(PyStr(<<Tok1965, TokStrat>>), PyStr(<<"$", "3", "0", "0">>), TRUE,
             CondExcellent)
\* No price element: the card is passed over.
CardNoPrice == HtmlCard(PyStr(<<TokStrat>>), PyMissing, TRUE, CondExcellent)
\* A condition text outside the table: rejected by the filter.
CardPreOwned ==
    HtmlCard(PyStr(<<Tok1919, TokStrat>>), PyStr(<<"$", "9", "9">>), TRUE,
             CondPreOwned)

\* Condition texts as the marketplaces word them, outside the table.
CondBrandNew == "Brand New"
EbayApiPreOwned ==
    EbayApiItem(PyStr(<<TokStrat, Tok1975>>), PyNum(300), Usd, CondPreOwned,
                PyStr(LocUS))
ReverbApiBrandNew ==
    ReverbApiItem(PyStr(<<TokStrat>>), PyNum(30000), CondBrandNew, PyMissing,
                  TRUE)
\* A price below zero: float() takes the numeral as it is.
EbayApiNegativePrice ==
    EbayApiItem(PyStr(<<TokStrat>>), PyNum(-5), Usd, CondExcellent, PyStr(LocUS))
ReverbApiNegativePrice ==
    ReverbApiItem(PyStr(<<TokStrat>>), PyNum(-500), CondExcellent, PyMissing,
                  TRUE)
\* An item that is null instead of an object: item.get raises.
EbayApiNull ==
    [dict |-> FALSE, title |-> PyMissing, value |-> PyMissing,
     currency |-> Missing, condition |-> Missing, location |-> PyMissing]
\* A price text without a digit, and one with a minus sign.
CardNoDigits ==
    HtmlCard(PyStr(<<TokStrat>>), PyStr(<<"c", "a", "l", "l">>), TRUE,
             CondExcellent)
CardMinus ==
    HtmlCard(PyStr(<<TokStrat>>), PyStr(<<"-", "$", "5">>), TRUE, CondExcellent)

Marketplaces == {EBay, Reverb}
Paths == {Api, Html}

\* The items a response of a marketplace may hold on a path.
ItemsOf(marketplace, path) ==
    IF path = Html
    THEN {CardGood, CardNoPrice, CardPreOwned, CardNoDigits, CardMinus}
    ELSE IF marketplace = EBay
         THEN {EbayApiGood, EbayApiBadPrice, EbayApiReissue,
               EbayApiListCondition, EbayApiPreOwned, EbayApiNegativePrice,
               EbayApiNull}
         ELSE {ReverbApiGood, ReverbApiNoPhotos, ReverbApiPricey,
               ReverbApiNullLocation, ReverbApiBrandNew, ReverbApiNegativePrice}

\* The answers a marketplace may give on a path.
Responses(marketplace, path) ==
    {Response(Raise, <<>>), Response(Status, <<>>)}
    \cup (IF path = Html
          THEN {Response(Ok, <<CardGood, CardNoPrice, CardPreOwned>>)}
          ELSE {Response(Malformed, <<>>), Response(NoKey, <<>>)}
               \cup (IF marketplace = EBay
                     THEN {Response(Ok, <<EbayApiGood, EbayApiBadPrice,
                                          EbayApiReissue>>),
                           Response(Ok, <<EbayApiListCondition>>)}
                     ELSE {Response(Ok, <<ReverbApiGood, ReverbApiNoPhotos,
                                          ReverbApiPricey>>),
                           Response(Ok, <<ReverbApiNullLocation>>)}))

(***************************************************************************)
(* State.                                                                  *)
(*                                                                         *)
(* scrape_all is a coroutine on one event loop: between two suspension     *)
(* points (a request, the politeness delay, the delay of the sink, the     *)
(* close of the session) a run executes without interleaving.  cur is the  *)
(* run that holds the loop, 0 when every run is suspended or finished.     *)
(***************************************************************************)
VARIABLES
    config,      \* Config.config, as far as the scraper reads it
    world,       \* what each marketplace answers on each path
    session,     \* VintageGearScraper.session: 0 (None) or a session
    made,        \* the number of sessions created so far
    closed,      \* the sessions that have been closed
    cur,         \* the run that is executing
    run,         \* per invocation of scrape_all: its locals and position
    f_given,     \* filter_results on its own: the list it is given
    f_results,   \*   its argument, as the calls leave it
    f_criteria,  \*   the criteria in force
    f_out,       \*   its value
    f_again,     \*   the value of filtering that value again
    f_pc,        \*   "off", "input", "filtered", "refiltered"
    y_title,     \* extract_year_from_title on its own: the title it is given
    y_year,      \*   its value
    y_pc,        \*   "off", "input", "extracted"
    p_marketplace, \* one adapter path on its own: its marketplace,
    p_path,      \*   the path,
    p_items,     \*   the items of the response (status 200) it is given,
    p_out,       \*   the listings it returns
    p_pc,        \*   "off", "input", "parsed"
    scrape_status,        \* main.scrape_status, its key "running"
    job,                  \* per trigger: what became of it and of its job
    last_scrape_results,  \* main.last_scrape_results
    updates               \* the number of POST /config requests served

orchVars == <<config, world, session, made, closed, cur, run>>
filterVars == <<f_given, f_results, f_criteria, f_out, f_again, f_pc>>
yearVars == <<y_title, y_year, y_pc>>
parseVars == <<p_marketplace, p_path, p_items, p_out, p_pc>>
serviceVars == <<scrape_status, job, last_scrape_results, updates>>
pureVars == <<filterVars, yearVars, parseVars>>
vars == <<config, world, session, made, closed, cur, run,
          f_given, f_results, f_criteria, f_out, f_again, f_pc,
          y_title, y_year, y_pc,
          p_marketplace, p_path, p_items, p_out, p_pc,
          scrape_status, job, last_scrape_results, updates>>

RunIds == 1..MaxRuns

\* A search term: text, or a value of another type that an unvalidated
\* config.json supplies (src/config.py:35-39 merges the file as it is).
TermText == PyStr(<<"a", "m", "p">>)
TermNumber == PyNum(1959)
Terms == {TermText, TermNumber}

RECURSIVE SeqsUpTo(_, _)
SeqsUpTo(S, n) ==
    IF n = 0 THEN {<<>>}
    ELSE LET shorter == SeqsUpTo(S, n - 1)
         IN  shorter \cup {Append(q, x) : q \in shorter, x \in S}

DefaultMaxYear == 1979

Config(terms, ebay_key, reverb_key, sheets_id, max_year, min_condition) ==
    [search_terms |-> terms, ebay_api_key |-> ebay_key,
     reverb_api_key |-> reverb_key, google_sheets_id |-> sheets_id,
     max_year |-> max_year, min_condition |-> min_condition]

\* The configurations a run may find.  A key or id is modelled by whether it
\* is set (the code only tests its truth).
Configs ==
    {Config(t, e, v, g, DefaultMaxYear, CondGood) :
        t \in SeqsUpTo(Terms, MaxTerms), e \in BOOLEAN, v \in BOOLEAN,
        g \in BOOLEAN}

\* world[m][p] is the one answer of marketplace m on path p, or AnyResponse
\* when the marketplace is free to give any answer at each request.
AnyResponse == Response("any", <<>>)

Offered(marketplace, path) ==
    IF world[marketplace][path] = AnyResponse THEN Responses(marketplace, path)
    ELSE {world[marketplace][path]}

FreeWorld == [m \in Marketplaces |-> [p \in Paths |-> AnyResponse]]

\* The locals of a run before scrape_all is entered.
NewRun(pc) ==
    [pc |-> pc, terms |-> <<>>, i |-> 1, marketplace |-> EBay, path |-> Api,
     using |-> 0, all_results |-> <<>>, results |-> <<>>, filtered |-> <<>>,
     exc |-> FALSE,
     \* history: the answer each path got in the current adapter call, the
     \* results of the HTML path, what every adapter call returned, the
     \* arguments of the calls of filter_results, the calls of the sink
     api |-> "none", html |-> "none", html_results |-> <<>>, calls |-> <<>>,
     filter_calls |-> <<>>, sink_calls |-> 0,
     \* the session this run created on entry
     own |-> 0,
     \* the configuration in force when the run read its search terms, whether
     \* the current adapter call found a key, the criteria the filter applied
     read |-> Config(<<>>, FALSE, FALSE, FALSE, DefaultMaxYear, CondGood),
     keyed |-> FALSE,
     criteria |-> [max_year |-> DefaultMaxYear, min_condition |-> CondGood],
     \* the politeness delays that have elapsed, the number of adapter calls
     \* made when each delay began, and for every request its term, its
     \* marketplace and the delays elapsed when it was issued
     delays |-> 0, slept_at |-> <<>>, requests |-> {},
     \* what the sink call came to: "none", "written" or "failed"
     sink_outcome |-> "none"]

Set(r, rec) == run' = [run EXCEPT ![r] = rec]

(***************************************************************************)
(* scrape_all (src/scraper.py:39-81) and the adapters it calls.            *)
(***************************************************************************)
CallRecord(rec, raised, results) ==
    [term |-> rec.i, marketplace |-> rec.marketplace, raised |-> raised,
     results |-> results, keyed |-> rec.keyed]

\* Faulty variant: the next term follows Reverb at once, without the delay.
ContinueWithoutDelay(rec) ==
    IF rec.marketplace = EBay
    THEN [rec EXCEPT !.marketplace = Reverb, !.pc = "adapter"]
    ELSE [rec EXCEPT !.pc = "term", !.i = @ + 1]

\* After an adapter call of scrape_all: Reverb follows eBay, the politeness
\* delay follows Reverb.
Continue(rec) ==
    IF rec.marketplace = EBay
    THEN [rec EXCEPT !.marketplace = Reverb, !.pc = "adapter"]
    ELSE [rec EXCEPT !.pc = "sleep"]

\* all_results.extend(results)
Extend(all_results, results) == all_results \o results

\* Faulty variant: the accumulator is assigned, not extended.
AdapterReturnedAssigning(rec) ==
    Continue([rec EXCEPT !.all_results = rec.results,
                         !.calls = Append(@, CallRecord(rec, FALSE, rec.results))])

\* The adapter call returned rec.results (src/scraper.py:53-55, 61-63).
AdapterReturned(rec) ==
    Continue([rec EXCEPT !.all_results = Extend(@, rec.results),
                         !.calls = Append(@, CallRecord(rec, FALSE, rec.results))])

\* The adapter call raised: the handler logs (src/scraper.py:56-57, 64-65).
AdapterRaised(rec) ==
    Continue([rec EXCEPT !.calls = Append(@, CallRecord(rec, TRUE, <<>>))])

\* The run takes the answer resp to the request of its current path.
Deliver(rec, resp) ==
    IF rec.path = Api
    THEN LET o == ApiOutcome(rec.marketplace, resp)
         IN  IF o.raises THEN [rec EXCEPT !.api = resp.kind, !.pc = "except"]
             ELSE IF o.fallback
                  THEN [rec EXCEPT !.api = resp.kind, !.path = Html, !.pc = "send"]
             ELSE [rec EXCEPT !.api = resp.kind, !.results = o.results,
                              !.pc = "return"]
    ELSE LET res == HtmlResults(rec.marketplace, resp)
         IN  [rec EXCEPT !.html = resp.kind, !.html_results = res,
                         !.results = res, !.pc = "return"]

\* async with self: __aenter__ replaces self.session by a new session; then
\* the search terms are read (src/scraper.py:31-33, 41-46).
Enter(r) ==
    /\ cur = 0
    /\ run[r].pc = "idle"
    /\ made' = made + 1
    /\ session' = made + 1
    /\ Set(r, [run[r] EXCEPT !.pc = "term", !.terms = config.search_terms,
                             !.i = 1, !.all_results = <<>>, !.own = made + 1,
                             !.read = config])
    /\ cur' = r
    /\ UNCHANGED <<config, world, closed, pureVars>>

\* scrape_all called by itself.
Start(r) == Enter(r) /\ UNCHANGED serviceVars

\* for term in search_terms (src/scraper.py:48)
NextTerm(r) ==
    /\ cur = r
    /\ run[r].pc = "term"
    /\ Set(r, IF run[r].i <= Len(run[r].terms)
              THEN [run[r] EXCEPT !.pc = "adapter", !.marketplace = EBay]
              ELSE [run[r] EXCEPT !.pc = "filter"])
    /\ UNCHANGED <<config, world, session, made, closed, cur, pureVars, serviceVars>>

\* scrape_ebay / scrape_reverb: the path is chosen by the key in the current
\* configuration (src/scraper.py:83-95, 210-222).
CallAdapter(r) ==
    /\ cur = r
    /\ run[r].pc = "adapter"
    /\ LET key == IF run[r].marketplace = EBay THEN config.ebay_api_key
                  ELSE config.reverb_api_key
       IN  Set(r, [run[r] EXCEPT !.path = IF key THEN Api ELSE Html,
                                 !.keyed = key,
                                 !.pc = "send", !.results = <<>>,
                                 !.api = "none", !.html = "none",
                                 !.html_results = <<>>])
    /\ UNCHANGED <<config, world, session, made, closed, cur, pureVars, serviceVars>>

\* History: a request of the current adapter call is issued.
Requested(rec) ==
    [rec EXCEPT !.requests = @ \cup {[term |-> rec.i,
                                      marketplace |-> rec.marketplace,
                                      delays |-> rec.delays]}]

\* The path issues its request on self.session.  The HTML path first builds
\* its URL; a closed session raises in session.get, inside the path's try.
Send(r) ==
    /\ cur = r
    /\ run[r].pc = "send"
    /\ IF run[r].path = Html /\ HtmlUrlRaises(run[r].terms[run[r].i])
       THEN Set(r, [run[r] EXCEPT !.pc = "except"]) /\ cur' = cur
       ELSE IF session \in closed
            THEN Set(r, Deliver(Requested(run[r]), Response(Raise, <<>>)))
                 /\ cur' = cur
            ELSE Set(r, [Requested(run[r]) EXCEPT !.using = session,
                                                 !.pc = "wait"])
                 /\ cur' = 0
    /\ UNCHANGED <<config, world, session, made, closed, pureVars, serviceVars>>

\* The request completes.  When the session was closed under the request,
\* the request fails or had its answer already.
Receive(r) ==
    /\ cur = 0
    /\ run[r].pc = "wait"
    /\ \E resp \in Offered(run[r].marketplace, run[r].path)
                   \cup (IF run[r].using \in closed
                         THEN {Response(Raise, <<>>)} ELSE {}) :
          Set(r, Deliver(run[r], resp))
    /\ cur' = r
    /\ UNCHANGED <<config, world, session, made, closed, pureVars, serviceVars>>

Return(r) ==
    /\ cur = r
    /\ run[r].pc = "return"
    /\ Set(r, AdapterReturned(run[r]))
    /\ UNCHANGED <<config, world, session, made, closed, cur, pureVars, serviceVars>>

Except(r) ==
    /\ cur = r
    /\ run[r].pc = "except"
    /\ Set(r, AdapterRaised(run[r]))
    /\ UNCHANGED <<config, world, session, made, closed, cur, pureVars, serviceVars>>

\* await asyncio.sleep(2) (src/scraper.py:68)
Sleep(r) ==
    /\ cur = r
    /\ run[r].pc = "sleep"
    /\ Set(r, [run[r] EXCEPT !.pc = "sleeping",
                             !.slept_at = Append(@, Len(run[r].calls))])
    /\ cur' = 0
    /\ UNCHANGED <<config, world, session, made, closed, pureVars, serviceVars>>

Wake(r) ==
    /\ cur = 0
    /\ run[r].pc = "sleeping"
    /\ Set(r, [run[r] EXCEPT !.pc = "term", !.i = @ + 1, !.delays = @ + 1])
    /\ cur' = r
    /\ UNCHANGED <<config, world, session, made, closed, pureVars, serviceVars>>

\* filtered_results = self.filter_results(all_results), under the criteria of
\* the current configuration (src/scraper.py:71, 341-344).
Filter(r) ==
    /\ cur = r
    /\ run[r].pc = "filter"
    /\ LET out == filter_results(run[r].all_results, config.max_year,
                                 config.min_condition)
           called == [run[r] EXCEPT
                        !.filter_calls = Append(@, run[r].all_results),
                        !.criteria = [max_year |-> config.max_year,
                                      min_condition |-> config.min_condition],
                        !.all_results = out.input]
       IN  Set(r, IF out.raised
                  THEN [called EXCEPT !.exc = TRUE, !.pc = "exit"]
                  ELSE [called EXCEPT !.filtered = out.filtered, !.pc = "sink"])
    /\ UNCHANGED <<config, world, session, made, closed, cur, pureVars, serviceVars>>

\* The sink is called for a non-empty batch when google_sheets_id is set
\* (src/scraper.py:74-79).  write_results (src/google_sheets.py:85-130) returns
\* False without suspending, or writes the rows and sleeps before it returns
\* True; its own handler lets no exception out.
\* Faulty variant: a write that failed is raised to the caller of scrape_all.
SinkCalledRaising(rec, written) ==
    IF written
    THEN [rec EXCEPT !.sink_calls = @ + 1, !.sink_outcome = "written",
                     !.pc = "sinking"]
    ELSE [rec EXCEPT !.sink_calls = @ + 1, !.sink_outcome = "failed",
                     !.exc = TRUE, !.pc = "exit"]

\* await self.google_client.write_results(filtered_results): the value is not
\* looked at (src/scraper.py:76-77).
SinkCalled(rec, written) ==
    [rec EXCEPT !.sink_calls = @ + 1,
                !.sink_outcome = IF written THEN "written" ELSE "failed",
                !.pc = IF written THEN "sinking" ELSE "exit"]

Sink(r) ==
    /\ cur = r
    /\ run[r].pc = "sink"
    /\ IF run[r].filtered # <<>> /\ config.google_sheets_id
       THEN \E written \in BOOLEAN :
               /\ Set(r, SinkCalled(run[r], written))
               /\ cur' = IF written THEN 0 ELSE cur
       ELSE Set(r, [run[r] EXCEPT !.pc = "exit"]) /\ cur' = cur
    /\ UNCHANGED <<config, world, session, made, closed, pureVars, serviceVars>>

SinkDone(r) ==
    /\ cur = 0
    /\ run[r].pc = "sinking"
    /\ Set(r, [run[r] EXCEPT !.pc = "exit"])
    /\ cur' = r
    /\ UNCHANGED <<config, world, session, made, closed, pureVars, serviceVars>>

\* __aexit__: whatever self.session is now is closed (src/scraper.py:35-37).
Exit(r) ==
    /\ cur = r
    /\ run[r].pc = "exit"
    /\ closed' = IF session # 0 THEN closed \cup {session} ELSE closed
    /\ Set(r, [run[r] EXCEPT !.pc = "closing"])
    /\ cur' = 0
    /\ UNCHANGED <<config, world, session, made, pureVars, serviceVars>>

\* scrape_all returns filtered_results, or the exception leaves it.
Leave(r) ==
    /\ cur = 0
    /\ run[r].pc = "closing"
    /\ Set(r, [run[r] EXCEPT !.pc = IF run[r].exc THEN "raised" ELSE "returned"])
    /\ UNCHANGED <<config, world, session, made, closed, cur, pureVars>>

Finish(r) == Leave(r) /\ UNCHANGED serviceVars

FilterIdle ==
    /\ f_given = <<>>
    /\ f_results = <<>>
    /\ f_criteria = [max_year |-> DefaultMaxYear, min_condition |-> CondGood]
    /\ f_out = filter_results(<<>>, DefaultMaxYear, CondGood)
    /\ f_again = filter_results(<<>>, DefaultMaxYear, CondGood)
    /\ f_pc = "off"

YearIdle ==
    /\ y_title = <<>>
    /\ y_year = NoYear
    /\ y_pc = "off"

ParseIdle ==
    /\ p_marketplace = EBay
    /\ p_path = Api
    /\ p_items = <<>>
    /\ p_out = <<>>
    /\ p_pc = "off"

\* src/main.py:44-45 at import, no trigger yet.
ServiceIdle ==
    /\ scrape_status = [running |-> FALSE]
    /\ job = [j \in RunIds |-> "free"]
    /\ last_scrape_results = <<>>
    /\ updates = 0

\* One invocation of scrape_all, under any configuration, the marketplaces
\* free in their answers.
Init ==
    /\ config \in Configs
    /\ world = FreeWorld
    /\ session = 0
    /\ made = 0
    /\ closed = {}
    /\ cur = 0
    /\ run = [r \in RunIds |-> IF r = 1 THEN NewRun("idle") ELSE NewRun("off")]
    /\ FilterIdle
    /\ YearIdle
    /\ ParseIdle
    /\ ServiceIdle

RunNext ==
    \E r \in RunIds :
        \/ Start(r) \/ NextTerm(r) \/ CallAdapter(r) \/ Send(r) \/ Receive(r)
        \/ Return(r) \/ Except(r) \/ Sleep(r) \/ Wake(r) \/ Filter(r)
        \/ Sink(r) \/ SinkDone(r) \/ Exit(r) \/ Finish(r)

Next == RunNext

Spec == Init /\ [][Next]_vars

(***************************************************************************)
(* Overlapping invocations of scrape_all on the one scraper of             *)
(* src/main.py:31, each marketplace giving one fixed answer per path, so   *)
(* that what a run returns when it runs alone is determined.               *)
(***************************************************************************)
EbayApiAnswers ==
    {Response(Ok, <<EbayApiGood, EbayApiBadPrice, EbayApiReissue>>),
     Response(Raise, <<>>)}

FixedWorlds ==
    {[m \in Marketplaces |->
        [p \in Paths |->
            IF p = Html THEN Response(Ok, <<CardGood, CardNoPrice, CardPreOwned>>)
            ELSE IF m = EBay THEN a
            ELSE Response(Ok, <<ReverbApiGood, ReverbApiNoPhotos,
                                ReverbApiPricey>>)]] :
        a \in EbayApiAnswers}

OverlapConfigs ==
    {Config(<<t>>, e, FALSE, g, DefaultMaxYear, CondGood) :
        t \in Terms, e \in BOOLEAN, g \in BOOLEAN}

OverlapInit ==
    /\ config \in OverlapConfigs
    /\ world \in FixedWorlds
    /\ session = 0
    /\ made = 0
    /\ closed = {}
    /\ cur = 0
    /\ run = [r \in RunIds |-> NewRun("idle")]
    /\ FilterIdle
    /\ YearIdle
    /\ ParseIdle
    /\ ServiceIdle

OverlapSpec == OverlapInit /\ [][Next]_vars

\* What an adapter call returns when no other run touches the session.
AdapterAlone(marketplace, term, cfg, w) ==
    LET key == IF marketplace = EBay THEN cfg.ebay_api_key
               ELSE cfg.reverb_api_key
        api == ApiOutcome(marketplace, w[marketplace][Api])
    IN  IF key /\ ~api.fallback
        THEN [raised |-> api.raises, results |-> api.results]
        ELSE IF HtmlUrlRaises(term) THEN [raised |-> TRUE, results |-> <<>>]
        ELSE [raised |-> FALSE,
              results |-> HtmlResults(marketplace, w[marketplace][Html])]

\* all_results of a run that runs alone, after its first n terms.
RECURSIVE AllResultsAlone(_, _, _)
AllResultsAlone(n, cfg, w) ==
    IF n = 0 THEN <<>>
    ELSE LET term == cfg.search_terms[n]
         IN  Extend(Extend(AllResultsAlone(n - 1, cfg, w),
                           AdapterAlone(EBay, term, cfg, w).results),
                    AdapterAlone(Reverb, term, cfg, w).results)

\* The outcome of scrape_all when it runs alone.
ScrapeAllAlone(cfg, w) ==
    filter_results(AllResultsAlone(Len(cfg.search_terms), cfg, w),
                   cfg.max_year, cfg.min_condition)

(***************************************************************************)
(* The service of src/main.py around the one scraper: triggers, the jobs   *)
(* they start, and POST /config.  The handlers and the jobs are coroutines *)
(* of the one event loop and run when no scrape_all run holds it.  Every   *)
(* trigger takes the next slot of job:                                     *)
(*   "free"      no trigger yet                                            *)
(*   "rejected"  a manual trigger answered "Scrape already in progress"    *)
(*   "failed"    a scheduled trigger whose create_task raised              *)
(*   "accepted"  a job was handed to the event loop and has not begun      *)
(*   "scraping"  perform_scrape_job is between its first statement and     *)
(*               its end                                                   *)
(*   "ended"     perform_scrape_job is over                                *)
(* The keys last_run and message of scrape_status are not modelled, nor    *)
(* the file save_config writes.                                            *)
(***************************************************************************)
NextSlot(j) == job[j] = "free" /\ \A k \in 1..(j - 1) : job[k] # "free"

\* POST /scrape (src/main.py:146-155): the job is added as a background
\* task, which begins after the response has been sent.
ManualTrigger(j) ==
    /\ cur = 0
    /\ NextSlot(j)
    /\ job' = [job EXCEPT ![j] = IF scrape_status.running THEN "rejected"
                                 ELSE "accepted"]
    /\ UNCHANGED <<scrape_status, last_scrape_results, updates, orchVars,
                   pureVars>>

\* run_daily_scrape (src/main.py:65-67): no test of scrape_status.
\* asyncio.create_task needs a running event loop in the calling thread: it
\* creates the task when there is one and raises RuntimeError when the
\* scheduler calls from a thread of its own.
ScheduledTrigger(j) ==
    /\ NextSlot(j)
    /\ \E created \in BOOLEAN :
          job' = [job EXCEPT ![j] = IF created THEN "accepted" ELSE "failed"]
    /\ UNCHANGED <<scrape_status, last_scrape_results, updates, orchVars,
                   pureVars>>

\* perform_scrape_job begins: running is set and scrape_all is entered
\* (src/main.py:73-79).
JobStart(j) ==
    /\ job[j] = "accepted"
    /\ Enter(j)
    /\ scrape_status' = [scrape_status EXCEPT !.running = TRUE]
    /\ job' = [job EXCEPT ![j] = "scraping"]
    /\ UNCHANGED <<last_scrape_results, updates>>

\* scrape_all is over: its batch is kept and running is reset, or the
\* handler resets running (src/main.py:81-92).
JobFinish(j) ==
    /\ job[j] = "scraping"
    /\ Leave(j)
    /\ last_scrape_results' = IF run[j].exc THEN last_scrape_results
                              ELSE run[j].filtered
    /\ scrape_status' = [scrape_status EXCEPT !.running = FALSE]
    /\ job' = [job EXCEPT ![j] = "ended"]
    /\ UNCHANGED updates

\* What POST /config may set (src/main.py:112-144): every key is replaced;
\* the search terms are the parts of a text.
UpdateTargets ==
    {Config(<<TermText>>, e, FALSE, FALSE, y, CondGood) :
        e \in BOOLEAN, y \in {1970, DefaultMaxYear}}

\* Config.update_config (src/config.py:78-81), called by POST /config.
UpdateConfig ==
    /\ cur = 0
    /\ updates < MaxUpdates
    /\ \E c \in UpdateTargets \ {config} : config' = c
    /\ updates' = updates + 1
    /\ UNCHANGED <<world, session, made, closed, cur, run, scrape_status, job,
                   last_scrape_results, pureVars>>

ServiceInit ==
    /\ config \in OverlapConfigs
    /\ world \in FixedWorlds
    /\ session = 0
    /\ made = 0
    /\ closed = {}
    /\ cur = 0
    /\ run = [r \in RunIds |-> NewRun("idle")]
    /\ FilterIdle
    /\ YearIdle
    /\ ParseIdle
    /\ ServiceIdle

ServiceNext ==
    \/ \E j \in RunIds :
          \/ ManualTrigger(j) \/ ScheduledTrigger(j) \/ JobStart(j)
          \/ JobFinish(j)
          \/ NextTerm(j) \/ CallAdapter(j) \/ Send(j) \/ Receive(j)
          \/ Return(j) \/ Except(j) \/ Sleep(j) \/ Wake(j) \/ Filter(j)
          \/ Sink(j) \/ SinkDone(j) \/ Exit(j)
    \/ UpdateConfig

ServiceSpec == ServiceInit /\ [][ServiceNext]_vars

(***************************************************************************)
(* filter_results on its own: any list of up to MaxLen listings under any  *)
(* of the criteria, filtered, and the value filtered again.                *)
(***************************************************************************)
LocEmpty == <<>>
LocLowerUs == <<"u", "s", "a">>
LocGermany == <<"G", "e", "r", "m", "a", "n", "y">>
LocAustria == <<"A", "u", "s", "t", "r", "i", "a">>
LocUnitedStates ==
    <<"U", "n", "i", "t", "e", "d", " ", "S", "t", "a", "t", "e", "s">>

\* A listing that passes the default criteria, and listings that differ from
\* it in one field or in two.
BaseListing ==
    Listing(EBay, <<TokStrat>>, 30000, CondExcellent, PyStr(LocUS), 1965)

FilterListings ==
    {[BaseListing EXCEPT !.year = y] : y \in {NoYear, 1965, 1975, 1985}}
    \cup {[BaseListing EXCEPT !.condition = c] :
             c \in {CondFair, CondGood, CondUnknown, CondPreOwned, None,
                    ListValue}}
    \cup {[BaseListing EXCEPT !.price = p] : p \in {0, 50000, 50001}}
    \cup {[BaseListing EXCEPT !.location = l] :
             l \in {PyStr(LocEmpty), PyStr(LocLowerUs), PyStr(LocGermany),
                    PyStr(LocAustria), PyStr(LocUnitedStates), PyNone}}
    \cup {[BaseListing EXCEPT !.year = 1985, !.condition = ListValue],
          [BaseListing EXCEPT !.price = 60000, !.location = PyNone],
          [BaseListing EXCEPT !.condition = CondFair,
                              !.location = PyStr(LocGermany)]}

CondBogus == "Bogus"

Criteria ==
    [max_year : {1970, DefaultMaxYear},
     min_condition : {CondUnknown, CondFair, CondGood, CondMint, CondBogus}]

FilterInit ==
    /\ config = Config(<<>>, FALSE, FALSE, FALSE, DefaultMaxYear, CondGood)
    /\ world = FreeWorld
    /\ session = 0
    /\ made = 0
    /\ closed = {}
    /\ cur = 0
    /\ run = [r \in RunIds |-> NewRun("off")]
    /\ f_given \in SeqsUpTo(FilterListings, MaxLen)
    /\ f_results = f_given
    /\ f_criteria \in Criteria
    /\ f_out = filter_results(<<>>, DefaultMaxYear, CondGood)
    /\ f_again = filter_results(<<>>, DefaultMaxYear, CondGood)
    /\ f_pc = "input"
    /\ YearIdle
    /\ ParseIdle
    /\ ServiceIdle

\* filter_results(f_results); the argument is left as the call leaves it.
FilterOnce ==
    /\ f_pc = "input"
    /\ LET out == filter_results(f_results, f_criteria.max_year,
                                 f_criteria.min_condition)
       IN  /\ f_out' = out
           /\ f_results' = out.input
    /\ f_pc' = "filtered"
    /\ UNCHANGED <<f_given, f_criteria, f_again, orchVars, yearVars, parseVars, serviceVars>>

\* filter_results applied to the list it returned.
FilterAgain ==
    /\ f_pc = "filtered"
    /\ ~f_out.raised
    /\ f_again' = filter_results(f_out.filtered, f_criteria.max_year,
                                 f_criteria.min_condition)
    /\ f_pc' = "refiltered"
    /\ UNCHANGED <<f_given, f_results, f_criteria, f_out, orchVars, yearVars, parseVars, serviceVars>>

FilterNext == FilterOnce \/ FilterAgain

FilterSpec == FilterInit /\ [][FilterNext]_vars

(***************************************************************************)
(* extract_year_from_title on its own: any title of up to MaxLen + 1 word  *)
(* runs, each a word, a year inside or outside the band, or a year with a  *)
(* letter attached.                                                        *)
(***************************************************************************)
TitleWords == {TokStrat, Tok1965, Tok1975, Tok1985, Tok1919, Tok2015, Tok1965s}

Titles == SeqsUpTo(TitleWords, MaxLen + 1)

YearInit ==
    /\ config = Config(<<>>, FALSE, FALSE, FALSE, DefaultMaxYear, CondGood)
    /\ world = FreeWorld
    /\ session = 0
    /\ made = 0
    /\ closed = {}
    /\ cur = 0
    /\ run = [r \in RunIds |-> NewRun("off")]
    /\ FilterIdle
    /\ ParseIdle
    /\ ServiceIdle
    /\ y_title \in Titles
    /\ y_year = NoYear
    /\ y_pc = "input"

ExtractYear ==
    /\ y_pc = "input"
    /\ y_year' = extract_year_from_title(y_title)
    /\ y_pc' = "extracted"
    /\ UNCHANGED <<y_title, orchVars, filterVars, parseVars, serviceVars>>

YearNext == ExtractYear

YearSpec == YearInit /\ [][YearNext]_vars

(***************************************************************************)
(* One adapter path on its own: a response of status 200 with any items,   *)
(* up to MaxLen + 1 of them, parsed by the API or the HTML path.           *)
(***************************************************************************)
ParseInit ==
    /\ config = Config(<<>>, FALSE, FALSE, FALSE, DefaultMaxYear, CondGood)
    /\ world = FreeWorld
    /\ session = 0
    /\ made = 0
    /\ closed = {}
    /\ cur = 0
    /\ run = [r \in RunIds |-> NewRun("off")]
    /\ FilterIdle
    /\ YearIdle
    /\ ServiceIdle
    /\ p_marketplace \in Marketplaces
    /\ p_path \in Paths
    /\ p_items \in SeqsUpTo(ItemsOf(p_marketplace, p_path), MaxLen + 1)
    /\ p_out = <<>>
    /\ p_pc = "input"

ParseResponse ==
    /\ p_pc = "input"
    /\ p_out' = IF p_path = Api
                THEN ApiOutcome(p_marketplace, Response(Ok, p_items)).results
                ELSE HtmlResults(p_marketplace, Response(Ok, p_items))
    /\ p_pc' = "parsed"
    /\ UNCHANGED <<p_marketplace, p_path, p_items, orchVars, filterVars,
                   yearVars, serviceVars>>

ParseNext == ParseResponse

ParseSpec == ParseInit /\ [][ParseNext]_vars

(***************************************************************************)
(* Properties of the adapters and of scrape_all.                           *)
(***************************************************************************)
CurrentTerm(rec) == rec.terms[rec.i]

\* The adapter call of rec is over: it returns or raises.
AdapterDone(rec) == rec.pc \in {"return", "except"}

\* The listings the calls of a run returned, in call order.
RECURSIVE Concat(_)
Concat(calls) ==
    IF calls = <<>> THEN <<>>
    ELSE Concat(SubSeq(calls, 1, Len(calls) - 1)) \o calls[Len(calls)].results

\* The calls a run makes for its first n terms, in query order.
QueryOrder(n) ==
    [k \in 1..(2 * n) |->
        [term |-> (k + 1) \div 2,
         marketplace |-> IF k % 2 = 1 THEN EBay ELSE Reverb]]

CallsInQueryOrder(rec, n) ==
    /\ Len(rec.calls) = 2 * n
    /\ \A k \in 1..(2 * n) :
          /\ rec.calls[k].term = QueryOrder(n)[k].term
          /\ rec.calls[k].marketplace = QueryOrder(n)[k].marketplace

\* C1: in the API path of an adapter, when the API request fails (the request
\* raises, the status is not 200, or the body is malformed) the HTML path of
\* the same term is executed and the adapter returns its listings; the error
\* is not propagated.
C1_ApiFailureFallsBackToHtml ==
    \A r \in RunIds :
        (/\ AdapterDone(run[r])
         /\ CurrentTerm(run[r]).type = "str"
         /\ run[r].api \in {Raise, Status, Malformed})
        => /\ run[r].pc = "return"
           /\ run[r].html # "none"
           /\ run[r].results = run[r].html_results

\* C2: an adapter fetch for a search term (a text) never raises, whatever the
\* credentials and the outcomes of the API and HTML requests; it returns a
\* sequence, possibly empty, of listings of its marketplace.
WellFormedListing(l, marketplace) ==
    /\ DOMAIN l = {"marketplace", "title", "price", "condition", "location",
                   "year"}
    /\ l.marketplace = marketplace
    /\ l.price \in Int
    /\ l.year \in Int

C3_AdapterFailureIsIsolated ==
    \A r \in RunIds :
        (/\ run[r].pc \in {"returned", "raised"}
         /\ \E k \in 1..Len(run[r].calls) : run[r].calls[k].raised)
        => /\ run[r].pc = "returned"
           /\ CallsInQueryOrder(run[r], Len(run[r].terms))
           /\ run[r].filtered =
                 filter_results(Concat(run[r].calls), config.max_year,
                                config.min_condition).filtered

\* C4: whatever the search terms and the answers of the marketplaces, also
\* with listings whose fields are missing, null or of an unexpected type, no
\* exception leaves scrape_all.
C4_NoExceptionLeavesScrapeAll ==
    \A r \in RunIds : run[r].pc # "raised"

\* C6: scrape_all returns filter_results applied once, after the last term, to
\* the concatenation of what the adapter calls returned, in query order (the
\* terms in configured order, eBay before Reverb within a term), nothing
\* dropped, duplicated or reordered.
C6_FilterOnceOverAllResultsInOrder ==
    \A r \in RunIds :
        /\ Len(run[r].filter_calls) <= 1
        /\ Len(run[r].filter_calls) = 1
           => /\ run[r].i = Len(run[r].terms) + 1
              /\ CallsInQueryOrder(run[r], Len(run[r].terms))
              /\ run[r].filter_calls[1] = Concat(run[r].calls)
        /\ run[r].pc = "returned"
           => /\ Len(run[r].filter_calls) = 1
              /\ run[r].filtered =
                    filter_results(Concat(run[r].calls), config.max_year,
                                   config.min_condition).filtered

\* A run over two terms returned a batch: each of its four calls returned
\* listings, and the filter kept some and rejected some.
C6_Witness ==
    \E r \in RunIds :
        /\ run[r].pc = "returned"
        /\ Len(run[r].terms) = 2
        /\ \A k \in 1..4 : run[r].calls[k].results # <<>>
        /\ run[r].filtered # <<>>
        /\ Len(run[r].filtered) < Len(Concat(run[r].calls))

\* C10: every listing an adapter path produces, and so every listing of a
\* batch scrape_all returns, has no year or a year in 1920..1979.
YearInBand(l) ==
    l.year = NoYear \/ (MinVintageYear <= l.year /\ l.year <= MaxVintageYear)

C10_YearAbsentOrInBand ==
    \A r \in RunIds :
        /\ \A k \in 1..Len(run[r].results) : YearInBand(run[r].results[k])
        /\ \A k \in 1..Len(run[r].all_results) :
              YearInBand(run[r].all_results[k])
        /\ \A k \in 1..Len(run[r].filtered) : YearInBand(run[r].filtered[k])

\* A returned batch holds a listing of 1965, and a listing whose title
\* names 1985 was produced without a year.
C10_Witness ==
    \E r \in RunIds :
        /\ run[r].pc = "returned"
        /\ \E k \in 1..Len(run[r].filtered) : run[r].filtered[k].year = 1965
        /\ \E k \in 1..Len(run[r].all_results) :
              /\ \E j \in 1..Len(run[r].all_results[k].title) :
                    run[r].all_results[k].title[j] = Tok1985
              /\ run[r].all_results[k].year = NoYear


\* A run is fetching from its entry into scrape_all to the end of its loop
\* over the terms.
Fetching(rec) ==
    rec.pc \in {"term", "adapter", "send", "wait", "return", "except", "sleep",
                "sleeping"}

\* C5: scrape_all may be invoked concurrently on one scraper: while a run is
\* fetching, its HTTP session is neither closed nor replaced by another run,
\* and each run returns the batch it returns when it runs alone.
C5_OverlappingRunsDoNotInterfere ==
    \A r \in RunIds :
        /\ Fetching(run[r])
           => /\ session = run[r].own
              /\ run[r].own \notin closed
        /\ run[r].pc \in {"returned", "raised"}
           => /\ (run[r].pc = "raised") = ScrapeAllAlone(config, world).raised
              /\ run[r].filtered = ScrapeAllAlone(config, world).filtered


(***************************************************************************)
(* Properties of filter_results.                                           *)
(***************************************************************************)
\* The total order of the condition labels, lowest first; a label outside it
\* ranks 0 as the condition of an item and 3 (Good) as min_condition.
RankOrder ==
    <<CondUnknown, CondPoor, CondFair, CondGood, CondVeryGood, CondExcellent,
      CondMint, CondNew>>

Listed(label) == \E k \in 1..Len(RankOrder) : RankOrder[k] = label

RankOf(label) == (CHOOSE k \in 1..Len(RankOrder) : RankOrder[k] = label) - 1

ItemRank(label) == IF Listed(label) THEN RankOf(label) ELSE 0

MinRank(label) == IF Listed(label) THEN RankOf(label) ELSE 3

\* The four rules a listing has to pass.
YearRule(item, c) == item.year = NoYear \/ item.year <= c.max_year
ConditionRule(item, c) == ItemRank(item.condition) >= MinRank(c.min_condition)
PriceRule(item) == item.price <= 500 * 100
LocationRule(item) ==
    \/ item.location.text = <<>>
    \/ Contains(Upper(item.location.text), TextUS)
    \/ Contains(Upper(item.location.text), TextUnitedStates)

PassesAllRules(item, c) ==
    YearRule(item, c) /\ ConditionRule(item, c) /\ PriceRule(item)
    /\ LocationRule(item)

FilterReturned == f_pc \in {"filtered", "refiltered"} /\ ~f_out.raised

\* C7: filter_results returns exactly the listings of its input, in input
\* order, that pass all four rules: year absent or <= max_year; rank of the
\* condition >= rank of min_condition; price <= 500; location empty or
\* containing "US" or "UNITED STATES" in any case.
C7_FilterKeepsExactlyThePassingListings ==
    FilterReturned
    => f_out.filtered = SelectSeq(f_given, LAMBDA x : PassesAllRules(x, f_criteria))

\* Under an unrecognized min_condition, a listing at the price ceiling in good
\* condition is kept and one in fair condition is rejected.
C7_Witness ==
    /\ FilterReturned
    /\ f_criteria.min_condition = CondBogus
    /\ f_given = <<[BaseListing EXCEPT !.condition = CondFair],
                   [BaseListing EXCEPT !.price = 50000]>>
    /\ f_out.filtered = <<[BaseListing EXCEPT !.price = 50000]>>

\* C8: filter_results is idempotent and has no side effect: filtering the list
\* it returned, under the same criteria, returns that list, and a call leaves
\* its argument as it was.
C8_FilterIdempotentNoSideEffect ==
    /\ f_results = f_given
    /\ FilterReturned => f_out.input = f_given
    /\ f_pc = "refiltered"
       => /\ ~f_again.raised
          /\ f_again.filtered = f_out.filtered
          /\ f_again.input = f_out.filtered

\* A list was filtered twice, the first call having rejected a listing and
\* kept another.
C8_Witness ==
    /\ f_pc = "refiltered"
    /\ f_out.filtered # <<>>
    /\ Len(f_out.filtered) < Len(f_given)

\* a is b with some elements left out.
RECURSIVE IsSubsequence(_, _)
IsSubsequence(a, b) ==
    IF a = <<>> THEN TRUE
    ELSE IF b = <<>> THEN FALSE
    ELSE IF Head(a) = Head(b) THEN IsSubsequence(Tail(a), Tail(b))
    ELSE IsSubsequence(a, Tail(b))

\* Criteria c2 are at least as strict as c: min_condition of higher or equal
\* rank (an unrecognized min_condition ranking 3) and max_year lower or equal.
AtLeastAsStrict(c2, c) ==
    /\ MinRank(c2.min_condition) >= MinRank(c.min_condition)
    /\ c2.max_year <= c.max_year

\* C9: filter_results is monotone in its criteria: under a min_condition of
\* higher or equal rank, or a lower or equal max_year, the result is a
\* subsequence of the result under the original criteria.
C9_FilterMonotoneInCriteria ==
    FilterReturned
    => \A c2 \in Criteria :
          AtLeastAsStrict(c2, f_criteria)
          => LET stricter == filter_results(f_given, c2.max_year,
                                            c2.min_condition)
             IN  /\ ~stricter.raised
                 /\ IsSubsequence(stricter.filtered, f_out.filtered)

\* Raising min_condition and lowering max_year each shrink a result.
C9_Witness ==
    /\ FilterReturned
    /\ f_criteria = [max_year |-> DefaultMaxYear, min_condition |-> CondFair]
    /\ Len(f_out.filtered) = 2
    /\ filter_results(f_given, DefaultMaxYear, CondGood).filtered
          = <<f_out.filtered[2]>>
    /\ filter_results(f_given, 1970, CondFair).filtered = <<f_out.filtered[1]>>

(***************************************************************************)
(* Properties of the delay and of the sink step of scrape_all.             *)
(***************************************************************************)
\* The loop over the terms of rec is over.
TermsDone(rec) ==
    rec.pc \in {"filter", "sink", "sinking", "exit", "closing", "returned",
                "raised"}

\* C15: the politeness delay comes once per search term, after both adapters
\* were called for the term: the k-th delay begins when 2k adapter calls have
\* been made, and every request of the n-th term, of eBay as of Reverb, is
\* issued when exactly n - 1 delays have elapsed.
C15_DelayOncePerTermAfterBothAdapters ==
    \A r \in RunIds :
        /\ \A q \in run[r].requests : q.delays = q.term - 1
        /\ \A k \in 1..Len(run[r].slept_at) : run[r].slept_at[k] = 2 * k
        /\ Len(run[r].slept_at) <= Len(run[r].terms)
        /\ TermsDone(run[r])
           => /\ Len(run[r].slept_at) = Len(run[r].terms)
              /\ run[r].delays = Len(run[r].terms)

\* A run over two terms returned after requests to both marketplaces for
\* the first term and for the second.
C15_Witness ==
    \E r \in RunIds :
        /\ run[r].pc = "returned"
        /\ Len(run[r].terms) = 2
        /\ \A n \in 1..2 : \A m \in Marketplaces :
              \E q \in run[r].requests : q.term = n /\ q.marketplace = m

\* What filter_results made of the one argument a run gave it.
Filtered(rec) ==
    filter_results(rec.filter_calls[1], config.max_year, config.min_condition)

\* C16: the sink is called at most once in a run, after filter_results has
\* returned, and only for a non-empty batch with google_sheets_id set; the
\* run returns the batch filter_results returned, whether the write
\* succeeded or failed.
C16_SinkDoesNotAffectTheBatch ==
    \A r \in RunIds :
        /\ run[r].sink_calls <= 1
        /\ run[r].sink_calls = 1
           => /\ Len(run[r].filter_calls) = 1
              /\ ~Filtered(run[r]).raised
              /\ run[r].filtered = Filtered(run[r]).filtered
              /\ run[r].filtered # <<>>
              /\ config.google_sheets_id
        /\ (/\ run[r].pc \in {"returned", "raised"}
            /\ Len(run[r].filter_calls) = 1
            /\ ~Filtered(run[r]).raised)
           => /\ run[r].pc = "returned"
              /\ run[r].filtered = Filtered(run[r]).filtered

\* A run returned a non-empty batch after the write to the sink had failed.
C16_Witness ==
    \E r \in RunIds :
        /\ run[r].pc = "returned"
        /\ run[r].sink_outcome = "failed"
        /\ run[r].filtered # <<>>

(***************************************************************************)
(* Properties of extract_year_from_title.                                  *)
(***************************************************************************)
\* The years of 1920..1979 that a title names as a word of four digits.
FourDigits(t) == Len(t) = 4 /\ \A k \in 1..4 : t[k] \in Digits

VintageYearsOf(title) ==
    {IntOf(title[k]) : k \in {j \in 1..Len(title) :
        /\ FourDigits(title[j])
        /\ 1920 <= IntOf(title[j])
        /\ IntOf(title[j]) <= 1979}}

\* C11: a title that contains a four-digit year of 1920..1979, wherever it
\* stands and whatever other four-digit numbers the title holds, has that
\* year extracted (one of them, when the title names several).
C11_VintageYearIsExtracted ==
    (y_pc = "extracted" /\ VintageYearsOf(y_title) # {})
    => y_year \in VintageYearsOf(y_title)


(***************************************************************************)
(* Properties of the adapter paths.                                        *)
(***************************************************************************)
CanonicalLabels ==
    {"Unknown", "Poor", "Fair", "Good", "Very Good", "Excellent", "Mint", "New"}

\* C12: every listing an API path returns for an item whose condition is a
\* text has one of the canonical labels as its condition.
C12_ApiConditionIsCanonical ==
    (p_pc = "parsed" /\ p_path = Api)
    => \A k \in 1..Len(p_out) :
          p_out[k].condition \notin {None, ListValue}
          => p_out[k].condition \in CanonicalLabels

\* C13: every listing a path produces has a price of at least 0.
C13_PriceIsNotNegative ==
    p_pc = "parsed" => \A k \in 1..Len(p_out) : p_out[k].price >= 0

\* The items of the response whose parse does not fail.
ParsedOk ==
    {k \in 1..Len(p_items) : ParseItem(p_marketplace, p_path, p_items[k]).ok}

\* C14: the listings a path returns are those of the items whose parse did
\* not fail, every one of them, in the order of the response; an item that
\* fails is left out alone.
C14_ItemFailureIsIsolated ==
    p_pc = "parsed"
    => /\ Len(p_out) = Cardinality(ParsedOk)
       /\ \A k \in ParsedOk :
             p_out[Cardinality({j \in ParsedOk : j <= k})]
                = ParseItem(p_marketplace, p_path, p_items[k]).listing

\* A response of three items whose second fails to parse: the first and the
\* third are returned.
C14_Witness ==
    /\ p_pc = "parsed"
    /\ Len(p_items) = 3
    /\ ParsedOk = {1, 3}
    /\ Len(p_out) = 2

(***************************************************************************)
(* Properties of the service.                                              *)
(***************************************************************************)
Scraping == {j \in RunIds : job[j] = "scraping"}

\* C17: at most one scrape job is in progress at any time.
C17_AtMostOneJobInProgress == Cardinality(Scraping) <= 1

\* C18: scrape_status["running"] is true exactly while a scrape job is in
\* progress.
C18_RunningIffJobInProgress == scrape_status.running <=> (Scraping # {})

\* C19: the criteria filter_results applies in a run and the credential each
\* adapter call of the run uses are those of the configuration the run read
\* its search terms from.
C19_ConfigurationOfTheRunIsTheOneRead ==
    \A r \in RunIds :
        /\ Len(run[r].filter_calls) > 0
           => run[r].criteria = [max_year |-> run[r].read.max_year,
                                 min_condition |-> run[r].read.min_condition]
        /\ \A k \in 1..Len(run[r].calls) :
              run[r].calls[k].keyed =
                 IF run[r].calls[k].marketplace = EBay
                 THEN run[r].read.ebay_api_key
                 ELSE run[r].read.reverb_api_key

=============================================================================
